---- MODULE Spec2Model ----
(***************************************************************************)
(* Verification model of assignment_3/code: the coupling-layer normalizing *)
(* flow (a3_nf_template.py) and the VAE template (a3_vae_template.py).     *)
(*                                                                         *)
(* Numbers.  Tensor entries are dyadic rationals <<m, e>> = m / 2^e, kept  *)
(* in lowest terms, so that + and * are exact.  Log-scales and log-        *)
(* determinants of the coupling layers are integers counting units of      *)
(* ln 2: exp(k ln 2) = 2^k is dyadic, and -ln 2, 0, ln 2 all lie in the    *)
(* range (-1, 1) of tanh.                                                  *)
(***************************************************************************)
EXTENDS Integers, Sequences, FiniteSets, TLC

VARIABLES
    layers,       \* Flow.layers: the sequence of Coupling modules
    z,            \* the latent batch threaded through the transforms
    ldj,          \* the accumulated log-determinant, one entry per example
    hist,         \* the calls made so far: mode, layer, and (z, ldj) around it
    fpc,          \* position inside Flow.forward
    fiter,        \* the layer indices Flow.forward has still to visit
    frev,         \* the reverse argument of the running Flow.forward
    pc,           \* the statement of main / run_epoch / epoch_iter to run next
    site,         \* which call of epoch_iter is running: "train" or "val"
    epochs,       \* ARGS.epochs
    epoch,        \* main's loop variable
    training,     \* model.training
    data,         \* (traindata, valdata): each a sequence of image batches
    iter,         \* the batches epoch_iter's loop has still to visit
    idx,          \* epoch_iter's idx; -1 while unbound
    images,       \* epoch_iter's current batch
    log_px,       \* epoch_iter's log_px
    avg_bpd,      \* epoch_iter's avg_bpd
    params,       \* the model parameters seen by the optimizer
    grads,        \* the accumulated .grad of the parameters
    bpd,          \* run_epoch's (train_bpd, val_bpd)
    curves,       \* main's (train_curve, val_curve)
    saved,        \* the files written so far
    ops,          \* history: autograd / optimizer calls made for the current batch
    outs,         \* history: model(images) of every batch of the running epoch_iter
    rets,         \* history: the pairs run_epoch has returned
    snap          \* history: the parameters when the running epoch_iter was entered

flowVars == <<layers, z, ldj, hist, fpc, fiter, frev>>

driverVars == <<pc, site, epochs, epoch, training, data, iter, idx, images, log_px,
                avg_bpd, params, grads, bpd, curves, saved, ops, outs, rets, snap>>

vars == <<flowVars, driverVars>>

----------------------------------------------------------------------------
(* Bounds of the model *)

\* c_in: the number of features of an example (784 in the program)
Dim == 2
\* get_mask: the width of the image in pixels (28 in the program)
MaskCols == 2
\* Flow(n_flows): the largest number of (mask, 1 - mask) layer pairs
MaxFlows == 2
\* n_hidden of the coupling network (1024 in the program)
NHidden == 1
\* examples per batch
BatchSize == 1
\* number of Coupling.forward calls made on one layer in a row
MaxCalls == 2

\* batches in one data split
MaxBatches == 2
\* the largest ARGS.epochs
MaxEpochs == 2

----------------------------------------------------------------------------
(* Exact dyadic arithmetic *)

RECURSIVE Pow2(_)
Pow2(k) == IF k <= 0 THEN 1 ELSE 2 * Pow2(k - 1)

RECURSIVE DNorm(_)
DNorm(a) ==
    IF a[2] > 0 /\ a[1] % 2 = 0 THEN DNorm(<<a[1] \div 2, a[2] - 1>>) ELSE a

DInt(n) == <<n, 0>>

Max(a, b) == IF a >= b THEN a ELSE b

DAdd(a, b) ==
    LET e == Max(a[2], b[2])
    IN  DNorm(<<a[1] * Pow2(e - a[2]) + b[1] * Pow2(e - b[2]), e>>)

DMul(a, b) == DNorm(<<a[1] * b[1], a[2] + b[2]>>)

DNeg(a) == <<-a[1], a[2]>>

\* a tensor row as a materialised tuple
Vec(f) == f \o <<>>

RECURSIVE DSum(_)
DSum(s) == IF s = <<>> THEN DInt(0) ELSE DAdd(Head(s), DSum(Tail(s)))

RECURSIVE ISum(_)
ISum(s) == IF s = <<>> THEN 0 ELSE Head(s) + ISum(Tail(s))

----------------------------------------------------------------------------
(* torch primitives used by the coupling network *)

\* nn.Linear: y = W x + b, W a sequence of rows
Linear(lin, x) ==
    Vec([r \in 1..Len(lin.weight) |->
            DAdd(DSum(Vec([c \in 1..Len(x) |-> DMul(lin.weight[r][c], x[c])])),
                 lin.bias[r])])

\* nn.ReLU, elementwise
ReLU(x) == Vec([c \in 1..Len(x) |-> IF x[c][1] > 0 THEN x[c] ELSE DInt(0)])

\* torch.tanh, in units of ln 2: odd, bounded, zero exactly at zero.  The
\* values are quantised to -ln 2, 0, ln 2.
Tanh(s) == IF s[1] > 0 THEN 1 ELSE IF s[1] < 0 THEN -1 ELSE 0

\* torch.exp of k ln 2
Exp(k) == IF k >= 0 THEN <<Pow2(k), 0>> ELSE <<1, -k>>

\* Tensor.chunk(2, -1)
Chunk(out) ==
    LET h == Len(out) \div 2
    IN  [s |-> SubSeq(out, 1, h), t |-> SubSeq(out, h + 1, Len(out))]

----------------------------------------------------------------------------
(* Coupling *)

\* self.nn: Linear ReLU Linear ReLU Linear
CouplingNN(layer, x) ==
    Linear(layer.nn[3], ReLU(Linear(layer.nn[2], ReLU(Linear(layer.nn[1], x)))))

\* variant: the network is fed z itself
MaskedUnmasked(mask, x) == x

\* z * self.mask
Masked(mask, x) == Vec([c \in 1..Len(x) |-> DMul(DInt(mask[c]), x[c])])

\* variant: log_scale = torch.tanh(s)
LogScaleUnmasked(mask, s) == Vec([c \in 1..Len(s) |-> Tanh(s[c])])

\* log_scale = torch.tanh(s) * (1 - self.mask)
LogScale(mask, s) == Vec([c \in 1..Len(s) |-> Tanh(s[c]) * (1 - mask[c])])

\* t = t * (1 - self.mask)
Translate(mask, t) == Vec([c \in 1..Len(t) |-> DMul(t[c], DInt(1 - mask[c]))])

\* Coupling.forward on one example x with accumulator l
CouplingExample(layer, x, l, reverse) ==
    LET st        == Chunk(CouplingNN(layer, Masked(layer.mask, x)))
        log_scale == LogScale(layer.mask, st.s)
        t         == Translate(layer.mask, st.t)
    IN  IF ~reverse
        THEN [z   |-> Vec([c \in 1..Len(x) |->
                          DMul(Exp(log_scale[c]), DAdd(x[c], t[c]))]),
              ldj |-> l + ISum(log_scale)]
        ELSE [z   |-> Vec([c \in 1..Len(x) |->
                          DAdd(DMul(Exp(-log_scale[c]), x[c]), DNeg(t[c]))]),
              ldj |-> l]

\* Coupling.forward on a batch: every row is transformed independently
CouplingForward(layer, zb, lb, reverse) ==
    [z   |-> Vec([b \in 1..Len(zb) |-> CouplingExample(layer, zb[b], lb[b], reverse).z]),
     ldj |-> Vec([b \in 1..Len(zb) |-> CouplingExample(layer, zb[b], lb[b], reverse).ldj])]

\* variant: only the bias of the last Linear is zeroed
CouplingInitBiasOnly(c_in, mask, n_hidden, lin1, lin2) ==
    [mask |-> mask,
     nn   |-> <<lin1, lin2,
                [weight |-> [r \in 1..(2 * c_in) |-> [c \in 1..n_hidden |-> DInt(1)]],
                 bias   |-> [r \in 1..(2 * c_in) |-> DInt(0)]]>>]

\* Coupling.__init__: the mask buffer and the network; the last Linear is
\* zeroed, the other two keep nn.Linear's random initial values (lin1, lin2)
CouplingInit(c_in, mask, n_hidden, lin1, lin2) ==
    [mask |-> mask,
     nn   |-> <<lin1, lin2,
                [weight |-> [r \in 1..(2 * c_in) |-> [c \in 1..n_hidden |-> DInt(0)]],
                 bias   |-> [r \in 1..(2 * c_in) |-> DInt(0)]]>>]

----------------------------------------------------------------------------
(* Inputs: masks, initial weights, trained weights, batches *)

\* get_mask: the checkerboard, flattened row by row
GetMask ==
    [k \in 1..Dim |->
        IF (((k - 1) \div MaskCols) + ((k - 1) % MaskCols)) % 2 = 0 THEN 1 ELSE 0]

\* 1 - mask
Complement(mask) == [k \in 1..Len(mask) |-> 1 - mask[k]]

\* every binary mask of the layer's width
Masks == [1..Dim -> {0, 1}]

\* an nn.Linear all of whose weights are w and all of whose biases are b
ConstLinear(n_in, n_out, w, b) ==
    [weight |-> [r \in 1..n_out |-> [c \in 1..n_in |-> DInt(w)]],
     bias   |-> [r \in 1..n_out |-> DInt(b)]]

\* the values nn.Linear's random initialisation is drawn from
FirstLinears == {ConstLinear(Dim, NHidden, w, 0) : w \in {-1, 1}}
SecondLinears == {ConstLinear(NHidden, NHidden, 1, 1)}

\* a last Linear after training: rows 1..c_in produce s, the others t
LastLinear(ws, bs, wt, bt) ==
    [weight |-> [r \in 1..(2 * Dim) |->
                    [c \in 1..NHidden |-> DInt(IF r <= Dim THEN ws ELSE wt)]],
     bias   |-> [r \in 1..(2 * Dim) |-> DInt(IF r <= Dim THEN bs ELSE bt)]]

LastLinears ==
    {LastLinear(ws, bs, wt, bt) :
        ws \in {-1, 0, 1}, bs \in {0, 1}, wt \in {1}, bt \in {-1, 0}}

\* the layers a Coupling can be: as constructed, or with a trained last Linear
CouplingLayers ==
    {[mask |-> m, nn |-> <<l1, l2, l3>>] :
        m \in Masks, l1 \in FirstLinears, l2 \in SecondLinears,
        l3 \in LastLinears}

\* example vectors a + b * c at feature c
Examples == {[c \in 1..Dim |-> DInt(a + b * c)] : a \in {-1, 1}, b \in {0, 1}}

Batches == [1..BatchSize -> Examples]

\* the transforms are not stepped through by the specifications of the drivers
FlowIdle ==
    /\ layers = <<>> /\ z = <<>> /\ ldj = <<>> /\ hist = <<>>
    /\ fpc = "none" /\ fiter = <<>> /\ frev = FALSE

\* the training driver is not part of the specifications of the transforms
DriverIdle ==
    /\ pc = "none" /\ site = "none" /\ epochs = 0 /\ epoch = 0
    /\ training = TRUE /\ data = <<>> /\ iter = <<>> /\ idx = -1
    /\ images = <<>> /\ log_px = <<>> /\ avg_bpd = <<>> /\ params = 0
    /\ grads = 0 /\ bpd = <<>> /\ curves = <<>> /\ saved = <<>>
    /\ ops = <<>> /\ outs = <<>> /\ rets = <<>> /\ snap = 0

----------------------------------------------------------------------------
(* Specification of one Coupling layer called repeatedly *)

InitCoupling ==
    /\ DriverIdle
    /\ layers \in {<<l>> : l \in CouplingLayers}
    /\ z \in Batches
    /\ ldj = [b \in 1..BatchSize |-> 0]
    /\ hist = <<>>
    /\ fpc = "coupling"
    /\ fiter = <<>>
    /\ frev = FALSE

\* z, ldj = layer(z, ldj, reverse)
CouplingCall(reverse) ==
    /\ Len(hist) < MaxCalls
    /\ LET out == CouplingForward(layers[1], z, ldj, reverse)
       IN  /\ z' = out.z
           /\ ldj' = out.ldj
           /\ hist' = Append(hist, [layer |-> 1, reverse |-> reverse,
                                    zin |-> z, ldjin |-> ldj,
                                    zout |-> out.z, ldjout |-> out.ldj])
    /\ UNCHANGED <<layers, fpc, fiter, frev, driverVars>>

NextCoupling ==
    \/ CouplingCall(FALSE)
    \/ CouplingCall(TRUE)

SpecCoupling == InitCoupling /\ [][NextCoupling]_vars

----------------------------------------------------------------------------
(* Claims about Coupling.forward *)

\* C1: for every mask, input and parameter setting, Coupling.forward in
\* forward mode followed by the same layer in reverse mode returns the
\* original z.
C1_ForwardThenReverse ==
    \A i \in 1..(Len(hist) - 1) :
        (~hist[i].reverse /\ hist[i + 1].reverse) => hist[i + 1].zout = hist[i].zin

\* a forward call that changed z, followed by a reverse call
C1_Witness ==
    \E i \in 1..(Len(hist) - 1) :
        /\ ~hist[i].reverse /\ hist[i + 1].reverse
        /\ hist[i].zout # hist[i].zin
        /\ hist[i].ldjout # hist[i].ldjin

\* C5: in both directions Coupling.forward leaves z unchanged at every
\* position where the mask is 1.
C5_MaskedHalfUnchanged ==
    \A i \in 1..Len(hist) : \A b \in 1..BatchSize : \A c \in 1..Dim :
        layers[1].mask[c] = 1 => hist[i].zout[b][c] = hist[i].zin[b][c]

\* a forward and a reverse call that both changed the unmasked half while the
\* mask has a 1
C5_Witness ==
    /\ \E c \in 1..Dim : layers[1].mask[c] = 1
    /\ \E i \in 1..Len(hist) : ~hist[i].reverse /\ hist[i].zout # hist[i].zin
    /\ \E i \in 1..Len(hist) : hist[i].reverse /\ hist[i].zout # hist[i].zin

----------------------------------------------------------------------------
(* Flow *)

\* Flow.__init__: n_flows pairs Coupling(mask), Coupling(1 - mask); draws[k]
\* is the random initialisation <<lin1, lin2>> of layer k
FlowInit(c_in, n_flows, draws) ==
    Vec([k \in 1..(2 * n_flows) |->
            CouplingInit(c_in,
                         IF k % 2 = 1 THEN GetMask ELSE Complement(GetMask),
                         NHidden, draws[k][1], draws[k][2])])

\* variant: both directions iterate self.layers first to last
LayerOrderForwardOnly(n, reverse) == Vec([k \in 1..n |-> k])

\* the order in which Flow.forward visits self.layers:
\* `for layer in self.layers` or `for layer in reversed(self.layers)`
LayerOrder(n, reverse) ==
    IF ~reverse THEN Vec([k \in 1..n |-> k]) ELSE Vec([k \in 1..n |-> n + 1 - k])

\* the initialisations drawn for the layers of one flow
FlowDraws(n_flows) ==
    {[k \in 1..(2 * n_flows) |-> <<l1, l2>>] :
        l1 \in FirstLinears, l2 \in SecondLinears}

InitFlow ==
    /\ DriverIdle
    /\ \E n_flows \in 1..MaxFlows : \E draws \in FlowDraws(n_flows) :
          layers = FlowInit(Dim, n_flows, draws)
    /\ z \in Batches
    /\ ldj \in {[b \in 1..BatchSize |-> l] : l \in {0, 1}}
    /\ hist = <<>>
    /\ fpc = "idle"
    /\ fiter = <<>>
    /\ frev = FALSE

\* Flow.forward(z, logdet, reverse) is entered
FlowCall(reverse) ==
    /\ fpc = "idle"
    /\ fpc' = "loop"
    /\ frev' = reverse
    /\ fiter' = LayerOrder(Len(layers), reverse)
    /\ UNCHANGED <<layers, z, ldj, hist, driverVars>>

\* one iteration of the loop: z, logdet = layer(z, logdet[, reverse=True])
FlowLayer ==
    /\ fpc = "loop"
    /\ fiter # <<>>
    /\ LET k   == Head(fiter)
           out == CouplingForward(layers[k], z, ldj, frev)
       IN  /\ z' = out.z
           /\ ldj' = out.ldj
           /\ hist' = Append(hist, [layer |-> k, reverse |-> frev,
                                    zin |-> z, ldjin |-> ldj,
                                    zout |-> out.z, ldjout |-> out.ldj])
    /\ fiter' = Tail(fiter)
    /\ UNCHANGED <<layers, fpc, frev, driverVars>>

\* return z, logdet
FlowReturn ==
    /\ fpc = "loop"
    /\ fiter = <<>>
    /\ fpc' = "done"
    /\ UNCHANGED <<layers, z, ldj, hist, fiter, frev, driverVars>>

NextFlow ==
    \/ FlowCall(FALSE)
    \/ FlowCall(TRUE)
    \/ FlowLayer
    \/ FlowReturn

SpecFlow == InitFlow /\ [][NextFlow]_vars

----------------------------------------------------------------------------
(* Claims about Flow.forward *)

\* C2: with reverse=False Flow.forward applies the layers first to last, each
\* in forward mode; with reverse=True it applies the same layers last to
\* first, each in inverse mode; every layer exactly once in both directions.
C2_LayerOrder ==
    /\ \A k \in 1..Len(hist) :
          /\ hist[k].reverse = frev
          /\ hist[k].layer = IF frev THEN Len(layers) + 1 - k ELSE k
    /\ fpc = "done" => Len(hist) = Len(layers)

\* a reverse pass over four layers has returned
C2_Witness ==
    /\ fpc = "done"
    /\ frev
    /\ Len(layers) = 4
    /\ Len(hist) = 4

\* C4: with the last Linear of every coupling layer zero, as constructed,
\* each Coupling layer and the whole Flow are the identity: z comes out as it
\* went in and the returned ldj equals the ldj passed in.
C4_IdentityAtInit ==
    /\ \A k \in 1..Len(hist) :
          /\ hist[k].zout = hist[k].zin
          /\ hist[k].ldjout = hist[k].ldjin
    /\ fpc = "done" => (z = hist[1].zin /\ ldj = hist[1].ldjin)

\* a forward pass over (mask, 1 - mask), started at ldj = 0 on a batch with
\* nonzero entries, has returned
C4_Witness ==
    /\ fpc = "done"
    /\ ~frev
    /\ Len(layers) = 2
    /\ \A b \in 1..BatchSize : hist[1].ldjin[b] = 0 /\ ldj[b] = 0
    /\ \E b \in 1..BatchSize : \A c \in 1..Dim : z[b][c][1] # 0

----------------------------------------------------------------------------
(* Model.logit_normalize *)

(***************************************************************************)
(* Here an entry of z is a record [kind, n, d]:                            *)
(*   "rat"    the rational n / d, in lowest terms, d > 0;                  *)
(*   "logit"  the real ln(p / (1 - p)) for the rational p = n / d in (0,1);*)
(*   "nan"    not a number.                                                *)
(* An entry of logdet is a record [bad, ln256, atoms] standing for         *)
(*   ln256 * ln 256 + the sum of atoms[a] * a over a in DOMAIN atoms,      *)
(* where an atom <<f, n, d>> is the real f(n / d), f one of                *)
(*   "log"         ln(p)                                                   *)
(*   "loglogit"    ln(y),     y = ln(p / (1 - p)) > 0                      *)
(*   "log1mlogit"  ln(1 - y), y = ln(p / (1 - p)), kept symbolic: it is    *)
(*                 not a number when y > 1;                                *)
(* bad is "nan" or "-inf" when the sum is known not to be finite, else "". *)
(***************************************************************************)

RECURSIVE GCD(_, _)
GCD(a, b) == IF b = 0 THEN a ELSE GCD(b, a % b)

Abs(a) == IF a < 0 THEN -a ELSE a

Rat(n, d) ==
    LET g == GCD(Abs(n), Abs(d))
        s == IF d < 0 THEN -1 ELSE 1
    IN  [kind |-> "rat", n |-> s * (n \div g), d |-> s * (d \div g)]

NaN == [kind |-> "nan", n |-> 0, d |-> 1]

\* x * (a / b), cancelling before multiplying
RatMul(x, a, b) ==
    LET g1 == GCD(Abs(x.n), b)
        g2 == GCD(Abs(a), x.d)
    IN  Rat((x.n \div g1) * (a \div g2), (x.d \div g2) * (b \div g1))

\* x + a / b
RatAdd(x, a, b) ==
    LET g == GCD(x.d, b)
    IN  Rat(x.n * (b \div g) + a * (x.d \div g), x.d * (b \div g))

\* alpha = 1e-5
AlphaDen == 100000

\* z / 256. and z * 256.
Scale == 256

ZeroLdj == [bad |-> "", ln256 |-> 0, atoms |-> <<>>]

\* l + k * atom
AddAtom(l, a, k) ==
    LET cur == IF a \in DOMAIN l.atoms THEN l.atoms[a] ELSE 0
        dom == IF cur + k = 0 THEN DOMAIN l.atoms \ {a} ELSE DOMAIN l.atoms \cup {a}
    IN  [l EXCEPT !.atoms = [x \in dom |-> IF x = a THEN cur + k ELSE l.atoms[x]]]

\* l + a value that is not finite
AddBad(l, bad) ==
    [l EXCEPT !.bad = IF l.bad = "nan" \/ bad = "nan" THEN "nan" ELSE bad]

\* l + k * torch.log(v)
AddLog(l, v, k) ==
    CASE v.kind = "nan" -> AddBad(l, "nan")
      [] v.kind = "rat" ->
            IF v.n < 0 THEN AddBad(l, "nan")
            ELSE IF v.n = 0 THEN AddBad(l, IF k > 0 THEN "-inf" ELSE "+inf")
            ELSE IF v.n = v.d THEN l
            ELSE AddAtom(l, <<"log", v.n, v.d>>, k)
      [] v.kind = "logit" ->
            \* ln(p / (1 - p)) is negative below p = 1/2 and zero at 1/2
            IF 2 * v.n < v.d THEN AddBad(l, "nan")
            ELSE IF 2 * v.n = v.d THEN AddBad(l, IF k > 0 THEN "-inf" ELSE "+inf")
            ELSE AddAtom(l, <<"loglogit", v.n, v.d>>, k)

\* l + k * torch.log(1 - v)
AddLog1m(l, v, k) ==
    CASE v.kind = "nan" -> AddBad(l, "nan")
      [] v.kind = "rat" -> AddLog(l, Rat(v.d - v.n, v.d), k)
      [] v.kind = "logit" -> AddAtom(l, <<"log1mlogit", v.n, v.d>>, k)

\* torch.log(z) - torch.log(1 - z) of a rational z
Logit(v) ==
    IF v.kind = "rat" /\ 0 < v.n /\ v.n < v.d
    THEN [kind |-> "logit", n |-> v.n, d |-> v.d]
    ELSE NaN

\* torch.sigmoid
Sigmoid(v) == IF v.kind = "logit" THEN Rat(v.n, v.d) ELSE NaN

\* l + k * sum over the features c of (log(x[c]) + log(1 - x[c]))
RECURSIVE SumLogs(_, _, _)
SumLogs(l, x, k) ==
    IF x = <<>> THEN l
    ELSE SumLogs(AddLog1m(AddLog(l, Head(x), k), Head(x), k), Tail(x), k)

\* Model.logit_normalize on one example x with accumulator l
LogitNormalizeExample(x, l, reverse) ==
    IF ~reverse
    THEN LET z1 == Vec([c \in 1..Len(x) |-> RatMul(x[c], 1, Scale)])
             l1 == [l EXCEPT !.ln256 = @ - Len(x)]
             z2 == Vec([c \in 1..Len(x) |->
                          RatAdd(RatMul(z1[c], AlphaDen - 1, AlphaDen),
                                 1, 2 * AlphaDen)])
             l2 == SumLogs(l1, z2, -1)
         IN  [z |-> Vec([c \in 1..Len(x) |-> Logit(z2[c])]), ldj |-> l2]
    ELSE LET l1 == SumLogs(l, x, 1)
             z1 == Vec([c \in 1..Len(x) |-> Sigmoid(x[c])])
             z2 == Vec([c \in 1..Len(x) |-> RatMul(z1[c], Scale, 1)])
         IN  [z |-> z2, ldj |-> [l1 EXCEPT !.ln256 = @ + Len(x)]]

\* Model.logit_normalize on a batch
LogitNormalize(zb, lb, reverse) ==
    [z   |-> Vec([b \in 1..Len(zb) |-> LogitNormalizeExample(zb[b], lb[b], reverse).z]),
     ldj |-> Vec([b \in 1..Len(zb) |-> LogitNormalizeExample(zb[b], lb[b], reverse).ldj])]

\* the largest denominator of an input of the forward direction
MaxInputDen == 2

\* dequantized pixel rows, every entry strictly inside (0, 256)
PixelExamples ==
    {[c \in 1..Dim |-> Rat(h * (a + c) + k, h)] :
        a \in {0, 31, 63, 95, 127, 159, 180, 223, 254 - Dim}, h \in 1..MaxInputDen, k \in {0, 1}}

\* rows of logits ln(p / (1 - p)), as the reverse direction receives them
LogitExamples ==
    {[c \in 1..Dim |-> [kind |-> "logit", n |-> a, d |-> 4]] : a \in {1, 2, 3}}
     \cup {[c \in 1..Dim |-> [kind |-> "logit", n |-> c, d |-> Dim + 1]]}

InitLogit ==
    /\ DriverIdle
    /\ z \in [1..BatchSize -> PixelExamples \cup LogitExamples]
    /\ ldj \in {[b \in 1..BatchSize |-> l] :
                  l \in {ZeroLdj, [ZeroLdj EXCEPT !.ln256 = 1]}}
    /\ hist = <<>>
    /\ fpc = "logit"
    /\ layers = <<>>
    /\ fiter = <<>>
    /\ frev = FALSE

\* z, logdet = self.logit_normalize(z, logdet, reverse)
LogitCall(reverse) ==
    /\ Len(hist) < MaxCalls
    /\ \A b \in 1..BatchSize : \A c \in 1..Dim :
          /\ z[b][c].kind = (IF reverse THEN "logit" ELSE "rat")
          /\ ~reverse => z[b][c].d <= MaxInputDen
    /\ LET out == LogitNormalize(z, ldj, reverse)
       IN  /\ z' = out.z
           /\ ldj' = out.ldj
           /\ hist' = Append(hist, [layer |-> 0, reverse |-> reverse,
                                    zin |-> z, ldjin |-> ldj,
                                    zout |-> out.z, ldjout |-> out.ldj])
    /\ UNCHANGED <<layers, fpc, fiter, frev, driverVars>>

NextLogit ==
    \/ LogitCall(FALSE)
    \/ LogitCall(TRUE)

SpecLogit == InitLogit /\ [][NextLogit]_vars

----------------------------------------------------------------------------
(* Claims about Model.logit_normalize *)

\* C3: for every input strictly inside (0, 256), logit_normalize in forward
\* mode followed by reverse mode returns the original input and returns the
\* accumulated ldj to the value it had before the forward call.
C3_RoundTrip ==
    \A i \in 1..(Len(hist) - 1) :
        (~hist[i].reverse /\ hist[i + 1].reverse) =>
            /\ hist[i + 1].zout = hist[i].zin
            /\ hist[i + 1].ldjout = hist[i].ldjin

----------------------------------------------------------------------------
(* The flow's training driver: epoch_iter, run_epoch, main *)

(***************************************************************************)
(* A log-likelihood is a record [kind |-> "ln2", n, d]: the real           *)
(* (n / d) * ln 2; dividing it by log(2) gives the rational n / d.  An     *)
(* image is abstracted to an integer, the parameters and their gradient to *)
(* one integer each (in units of the learning rate).                       *)
(***************************************************************************)

\* log_px = - model(images).mean() / 784
PixDim == 784

None == [kind |-> "none", n |-> 0, d |-> 1]

Sign(a) == IF a > 0 THEN 1 ELSE IF a < 0 THEN -1 ELSE 0

\* Model.forward: the log-likelihood of every example of the batch; a fixed
\* function of the parameters and the images stands for the network
ModelForward(p, imgs) ==
    Vec([k \in 1..Len(imgs) |->
            [kind |-> "ln2", n |-> -(imgs[k] + Abs(p) + 1), d |-> 1]])

\* Tensor.mean() of a vector of log-likelihoods
Mean(v) ==
    [Rat(ISum(Vec([k \in 1..Len(v) |-> v[k].n])), Len(v)) EXCEPT !.kind = "ln2"]

\* log_px = - model(images).mean() / 784
LogPx(out) ==
    LET m == Mean(out)
    IN  [RatMul(Rat(-m.n, m.d), 1, PixDim) EXCEPT !.kind = "ln2"]

\* log_px.item() / log(2)
DivLog2(x) == IF x.kind = "ln2" THEN [x EXCEPT !.kind = "rat"] ELSE NaN

\* variant: avg_bpd = log_px.item() / log(2)
AccumulateLast(avg, lp) == DivLog2(lp)

\* avg_bpd += log_px.item() / log(2)
Accumulate(avg, lp) == RatAdd(avg, DivLog2(lp).n, DivLog2(lp).d)

\* avg_bpd /= idx + 1
Average(avg, i) == RatMul(avg, 1, i + 1)

\* log_px.backward(): the gradient this batch adds to .grad
GradOf(p, imgs) == imgs[1] + 1 - p

\* clip_grad_norm_(parameters, max_norm)
ClipGradNorm(g, max_norm) == IF Abs(g) > max_norm THEN Sign(g) * max_norm ELSE g

\* optimizer.step() of Adam: a step of one learning rate against the gradient
AdamStep(p, g) == p - Sign(g)

\* variant: the loop body without `if model.training`
EpochIterNextPcAlwaysTrain(stmt, train) ==
    CASE stmt = "ei_forward"  -> "ei_backward"
      [] stmt = "ei_backward" -> "ei_clip"
      [] stmt = "ei_clip"     -> "ei_step"
      [] stmt = "ei_step"     -> "ei_zero"
      [] stmt = "ei_zero"     -> "ei_accum"
      [] stmt = "ei_accum"    -> "ei_for"

\* variant: optimizer.step() placed before log_px.backward()
EpochIterNextPcStepFirst(stmt, train) ==
    CASE stmt = "ei_forward"  -> IF train THEN "ei_step" ELSE "ei_accum"
      [] stmt = "ei_step"     -> "ei_backward"
      [] stmt = "ei_backward" -> "ei_clip"
      [] stmt = "ei_clip"     -> "ei_zero"
      [] stmt = "ei_zero"     -> "ei_accum"
      [] stmt = "ei_accum"    -> "ei_for"

\* the statement of epoch_iter's loop body that follows statement stmt
EpochIterNextPc(stmt, train) ==
    CASE stmt = "ei_forward"  -> IF train THEN "ei_backward" ELSE "ei_accum"
      [] stmt = "ei_backward" -> "ei_clip"
      [] stmt = "ei_clip"     -> "ei_step"
      [] stmt = "ei_step"     -> "ei_zero"
      [] stmt = "ei_zero"     -> "ei_accum"
      [] stmt = "ei_accum"    -> "ei_for"

\* variant: val_curve.append(train_bpd)
AppendCurvesTrainTwice(cs, train_bpd, val_bpd, which) ==
    IF which = "train"
    THEN [cs EXCEPT !.train = Append(@, train_bpd)]
    ELSE [cs EXCEPT !.val = Append(@, train_bpd)]

\* train_curve.append(train_bpd) and val_curve.append(val_bpd)
AppendCurves(cs, train_bpd, val_bpd, which) ==
    IF which = "train"
    THEN [cs EXCEPT !.train = Append(@, train_bpd)]
    ELSE [cs EXCEPT !.val = Append(@, val_bpd)]

\* the batches a data loader can yield
ImageBatches == {Vec([k \in 1..BatchSize |-> i + k - 1]) : i \in {0, 2}}

\* a non-empty split of the dataset
DataSplits == UNION {[1..n -> ImageBatches] : n \in 1..MaxBatches}

InitTrain ==
    /\ FlowIdle
    /\ pc = "main_for"
    /\ site = "none"
    /\ epochs \in 0..MaxEpochs
    /\ epoch = 0
    /\ training = TRUE
    /\ data \in [train : DataSplits, val : DataSplits]
    /\ iter = <<>>
    /\ idx = -1
    /\ images = <<>>
    /\ log_px = None
    /\ avg_bpd = None
    /\ params \in {0, 1}
    /\ grads = 0
    /\ bpd = [train |-> None, val |-> None]
    /\ curves = [train |-> <<>>, val |-> <<>>]
    /\ saved = <<>>
    /\ ops = <<>>
    /\ outs = <<>>
    /\ rets = <<>>
    /\ snap = 0

\* for epoch in range(ARGS.epochs)
MainFor ==
    /\ pc = "main_for"
    /\ pc' = IF epoch < epochs THEN "run_train" ELSE "save_pdf"
    /\ UNCHANGED <<flowVars, site, epochs, epoch, training, data, iter, idx, images,
                   log_px, avg_bpd, params, grads, bpd, curves, saved, ops, outs,
                   rets, snap>>

\* run_epoch: model.train(), then epoch_iter(model, traindata, optimizer) is called
RunTrain ==
    /\ pc = "run_train"
    /\ training' = TRUE
    /\ site' = "train"
    /\ pc' = "ei_init"
    /\ UNCHANGED <<flowVars, epochs, epoch, data, iter, idx, images, log_px, avg_bpd,
                   params, grads, bpd, curves, saved, ops, outs, rets, snap>>

\* run_epoch: model.eval(), then epoch_iter(model, valdata, optimizer) is called
RunEval ==
    /\ pc = "run_eval"
    /\ training' = FALSE
    /\ site' = "val"
    /\ pc' = "ei_init"
    /\ UNCHANGED <<flowVars, epochs, epoch, data, iter, idx, images, log_px, avg_bpd,
                   params, grads, bpd, curves, saved, ops, outs, rets, snap>>

\* epoch_iter: avg_bpd = 0, and the loop over data starts
EpochIterInit ==
    /\ pc = "ei_init"
    /\ avg_bpd' = Rat(0, 1)
    /\ iter' = data[site]
    /\ idx' = -1
    /\ ops' = <<>>
    /\ outs' = <<>>
    /\ snap' = params
    /\ pc' = "ei_for"
    /\ UNCHANGED <<flowVars, site, epochs, epoch, training, data, images, log_px,
                   params, grads, bpd, curves, saved, rets>>

\* for idx, (images, _) in enumerate(data)
EpochIterFor ==
    /\ pc = "ei_for"
    /\ IF iter # <<>>
       THEN /\ idx' = idx + 1
            /\ images' = Head(iter)
            /\ iter' = Tail(iter)
            /\ ops' = <<>>
            /\ pc' = "ei_forward"
       ELSE /\ pc' = "ei_avg"
            /\ UNCHANGED <<idx, images, iter, ops>>
    /\ UNCHANGED <<flowVars, site, epochs, epoch, training, data, log_px, avg_bpd,
                   params, grads, bpd, curves, saved, outs, rets, snap>>

\* log_px = - model(images).mean() / 784, then `if model.training`
EpochIterForward ==
    /\ pc = "ei_forward"
    /\ log_px' = LogPx(ModelForward(params, images))
    /\ outs' = Append(outs, ModelForward(params, images))
    /\ pc' = EpochIterNextPc("ei_forward", training)
    /\ UNCHANGED <<flowVars, site, epochs, epoch, training, data, iter, idx, images,
                   avg_bpd, params, grads, bpd, curves, saved, ops, rets, snap>>

\* log_px.backward()
EpochIterBackward ==
    /\ pc = "ei_backward"
    /\ grads' = grads + GradOf(params, images)
    /\ ops' = Append(ops, "backward")
    /\ pc' = EpochIterNextPc("ei_backward", training)
    /\ UNCHANGED <<flowVars, site, epochs, epoch, training, data, iter, idx, images,
                   log_px, avg_bpd, params, bpd, curves, saved, outs, rets, snap>>

\* clip_grad_norm_(model.flow.layers.parameters(), 1)
EpochIterClip ==
    /\ pc = "ei_clip"
    /\ grads' = ClipGradNorm(grads, 1)
    /\ ops' = Append(ops, "clip")
    /\ pc' = EpochIterNextPc("ei_clip", training)
    /\ UNCHANGED <<flowVars, site, epochs, epoch, training, data, iter, idx, images,
                   log_px, avg_bpd, params, bpd, curves, saved, outs, rets, snap>>

\* optimizer.step()
EpochIterStep ==
    /\ pc = "ei_step"
    /\ params' = AdamStep(params, grads)
    /\ ops' = Append(ops, "step")
    /\ pc' = EpochIterNextPc("ei_step", training)
    /\ UNCHANGED <<flowVars, site, epochs, epoch, training, data, iter, idx, images,
                   log_px, avg_bpd, grads, bpd, curves, saved, outs, rets, snap>>

\* optimizer.zero_grad()
EpochIterZeroGrad ==
    /\ pc = "ei_zero"
    /\ grads' = 0
    /\ ops' = Append(ops, "zero_grad")
    /\ pc' = EpochIterNextPc("ei_zero", training)
    /\ UNCHANGED <<flowVars, site, epochs, epoch, training, data, iter, idx, images,
                   log_px, avg_bpd, params, bpd, curves, saved, outs, rets, snap>>

\* avg_bpd += log_px.item() / log(2)
EpochIterAccum ==
    /\ pc = "ei_accum"
    /\ avg_bpd' = Accumulate(avg_bpd, log_px)
    /\ pc' = EpochIterNextPc("ei_accum", training)
    /\ UNCHANGED <<flowVars, site, epochs, epoch, training, data, iter, idx, images,
                   log_px, params, grads, bpd, curves, saved, ops, outs, rets, snap>>

\* avg_bpd /= idx + 1; return avg_bpd: to run_epoch's train_bpd or val_bpd, and
\* after the second call run_epoch returns the pair to main
EpochIterReturn ==
    /\ pc = "ei_avg"
    /\ avg_bpd' = Average(avg_bpd, idx)
    /\ IF site = "train"
       THEN /\ bpd' = [bpd EXCEPT !.train = avg_bpd']
            /\ pc' = "run_eval"
            /\ UNCHANGED rets
       ELSE /\ bpd' = [bpd EXCEPT !.val = avg_bpd']
            /\ pc' = "append_train"
            /\ rets' = Append(rets, <<bpd.train, avg_bpd'>>)
    /\ UNCHANGED <<flowVars, site, epochs, epoch, training, data, iter, idx, images,
                   log_px, params, grads, curves, saved, ops, outs, snap>>

\* train_curve.append(train_bpd)
MainAppendTrain ==
    /\ pc = "append_train"
    /\ curves' = AppendCurves(curves, bpd.train, bpd.val, "train")
    /\ pc' = "append_val"
    /\ UNCHANGED <<flowVars, site, epochs, epoch, training, data, iter, idx, images,
                   log_px, avg_bpd, params, grads, bpd, saved, ops, outs, rets, snap>>

\* val_curve.append(val_bpd), and the epoch's line is printed
MainAppendVal ==
    /\ pc = "append_val"
    /\ curves' = AppendCurves(curves, bpd.train, bpd.val, "val")
    /\ pc' = "sample"
    /\ UNCHANGED <<flowVars, site, epochs, epoch, training, data, iter, idx, images,
                   log_px, avg_bpd, params, grads, bpd, saved, ops, outs, rets, snap>>

\* sample = model.sample(64); save_image(sample, ...)
MainSample ==
    /\ pc = "sample"
    /\ saved' = Append(saved, <<"sample.png", epoch>>)
    /\ pc' = "save_png"
    /\ UNCHANGED <<flowVars, site, epochs, epoch, training, data, iter, idx, images,
                   log_px, avg_bpd, params, grads, bpd, curves, ops, outs, rets, snap>>

\* save_bpd_plot(train_curve, val_curve, 'nfs_bpd.png'); the loop body ends
MainSavePng ==
    /\ pc = "save_png"
    /\ saved' = Append(saved, <<"nfs_bpd.png", Len(curves.train)>>)
    /\ epoch' = epoch + 1
    /\ pc' = "main_for"
    /\ UNCHANGED <<flowVars, site, epochs, training, data, iter, idx, images,
                   log_px, avg_bpd, params, grads, bpd, curves, ops, outs, rets, snap>>

\* save_bpd_plot(train_curve, val_curve, 'nfs_bpd.pdf')
MainSavePdf ==
    /\ pc = "save_pdf"
    /\ saved' = Append(saved, <<"nfs_bpd.pdf", Len(curves.train)>>)
    /\ pc' = "done"
    /\ UNCHANGED <<flowVars, site, epochs, epoch, training, data, iter, idx, images,
                   log_px, avg_bpd, params, grads, bpd, curves, ops, outs, rets, snap>>

NextTrain ==
    \/ MainFor
    \/ RunTrain
    \/ RunEval
    \/ EpochIterInit
    \/ EpochIterFor
    \/ EpochIterForward
    \/ EpochIterBackward
    \/ EpochIterClip
    \/ EpochIterStep
    \/ EpochIterZeroGrad
    \/ EpochIterAccum
    \/ EpochIterReturn
    \/ MainAppendTrain
    \/ MainAppendVal
    \/ MainSample
    \/ MainSavePng
    \/ MainSavePdf

SpecTrain == InitTrain /\ [][NextTrain]_vars

----------------------------------------------------------------------------
(* Claims about the flow's training driver *)

\* the sum of the log-likelihoods (in units of ln 2) of all examples of all
\* batches recorded in o
RECURSIVE TotalOuts(_)
TotalOuts(o) ==
    IF o = <<>> THEN 0
    ELSE ISum(Vec([k \in 1..Len(Head(o)) |-> Head(o)[k].n])) + TotalOuts(Tail(o))

GradientStatements == {"ei_backward", "ei_clip", "ei_step", "ei_zero"}

\* C6: in evaluation mode no batch triggers backward, clipping, an optimizer
\* step or a gradient reset, the parameters are the same after the validation
\* epoch as before it, and the bpd metric is still accumulated for every batch.
C6_EvalLeavesParameters ==
    (site = "val" /\ pc # "ei_init") =>
        /\ ~training
        /\ pc \notin GradientStatements
        /\ ops = <<>>
        /\ params = snap
        /\ grads = 0
        /\ pc = "ei_avg" =>
              /\ Len(outs) = Len(data.val)
              /\ avg_bpd.kind = "rat"
              /\ avg_bpd.n * (PixDim * BatchSize) = -TotalOuts(outs) * avg_bpd.d

\* the validation pass of the second epoch is over, after a training pass that
\* moved the parameters
C6_Witness ==
    /\ site = "val"
    /\ pc = "append_train"
    /\ Len(rets) = 2
    /\ Len(outs) = 2
    /\ params # 0 /\ params # 1

\* C7: in training mode the parameters are mutated only by optimizer.step,
\* which runs exactly once per batch, after that batch's backward and
\* clipping and before zero_grad.
C7_StepOrder ==
    /\ []((pc = "ei_accum" /\ training) =>
            ops = <<"backward", "clip", "step", "zero_grad">>)
    /\ [][params' # params =>
            (pc = "ei_step" /\ training /\ ops = <<"backward", "clip">>)]_vars
    /\ [][(pc = "ei_step" /\ pc' # pc) => ops = <<"backward", "clip">>]_vars

\* the second training batch has been stepped and the parameters have moved
C7_Witness ==
    /\ pc = "ei_accum"
    /\ training
    /\ idx = 1
    /\ params # snap
    /\ ops = <<"backward", "clip", "step", "zero_grad">>

\* curve c2 extends curve c
IsPrefix(c, c2) == Len(c) <= Len(c2) /\ SubSeq(c2, 1, Len(c)) = c

\* C8: the train and the validation curve are each appended exactly once per
\* epoch, after both passes of that epoch: after k epochs both have length k,
\* entry i is epoch i's metric, and entries are never changed or removed.
C8_CurvesOncePerEpoch ==
    /\ [](pc = "main_for" =>
            /\ Len(curves.train) = epoch /\ Len(curves.val) = epoch
            /\ Len(rets) = epoch
            /\ \A i \in 1..epoch :
                  curves.train[i] = rets[i][1] /\ curves.val[i] = rets[i][2])
    /\ [][/\ IsPrefix(curves.train, curves'.train)
          /\ IsPrefix(curves.val, curves'.val)
          /\ curves' # curves =>
                /\ pc \in {"append_train", "append_val"}
                /\ Len(rets) = epoch + 1
                /\ Len(curves'.train) + Len(curves'.val)
                     = Len(curves.train) + Len(curves.val) + 1]_vars

\* two epochs are complete and the four recorded metrics are not all alike
C8_Witness ==
    /\ pc = "main_for"
    /\ epoch = 2
    /\ curves.train[1] # curves.train[2]
    /\ curves.train[1] # curves.val[1]

----------------------------------------------------------------------------
(* The VAE template: VAE.sample, epoch_iter, run_epoch, main *)

\* VAE.sample: sampled_ims, im_means = None, None; raise NotImplementedError()
VaeSample(n_samples) == [raised |-> TRUE, value |-> <<None, None>>]

\* variant: epoch_iter without the raise
VaeEpochIterReturns(model, dat, optimizer) == [raised |-> FALSE, value |-> None]

\* epoch_iter: average_epoch_elbo = None; raise NotImplementedError()
VaeEpochIter(model, dat, optimizer) == [raised |-> TRUE, value |-> None]

\* the statements of the VAE's main and run_epoch: the state s after the
\* statement at s.pc has run.  No statement catches an exception, so a raise
\* ends the run.
VaeExec(s, n_epochs, dat, model) ==
    CASE s.pc = "v_main_for" ->
            [s EXCEPT !.pc = IF s.epoch < n_epochs THEN "v_run_train" ELSE "v_save_plot"]
      [] s.pc = "v_run_train" ->
            LET r == VaeEpochIter(model, dat.train, "adam")
            IN  IF r.raised
                THEN [s EXCEPT !.pc = "raised", !.training = TRUE, !.site = "train"]
                ELSE [s EXCEPT !.pc = "v_run_eval", !.training = TRUE,
                               !.site = "train", !.bpd.train = r.value]
      [] s.pc = "v_run_eval" ->
            LET r == VaeEpochIter(model, dat.val, "adam")
            IN  IF r.raised
                THEN [s EXCEPT !.pc = "raised", !.training = FALSE, !.site = "val"]
                ELSE [s EXCEPT !.pc = "v_append_train", !.training = FALSE,
                               !.site = "val", !.bpd.val = r.value]
      [] s.pc = "v_append_train" ->
            [s EXCEPT !.pc = "v_append_val",
                      !.curves = AppendCurves(@, s.bpd.train, s.bpd.val, "train")]
      [] s.pc = "v_append_val" ->
            [s EXCEPT !.pc = "v_main_for", !.epoch = @ + 1,
                      !.curves = AppendCurves(@, s.bpd.train, s.bpd.val, "val")]
      [] s.pc = "v_save_plot" ->
            [s EXCEPT !.pc = "done", !.saved = Append(@, <<"elbo.pdf", Len(s.curves.train)>>)]

VaeStatements ==
    {"v_main_for", "v_run_train", "v_run_eval", "v_append_train", "v_append_val",
     "v_save_plot"}

\* the sizes model.sample is called with
SampleSizes == {0, 1, 64}

InitVAE ==
    /\ FlowIdle
    /\ pc \in {"v_main_for", "v_sample"}
    /\ site = "none"
    /\ epochs \in 0..MaxEpochs
    /\ epoch = 0
    /\ training = TRUE
    /\ data \in [train : DataSplits, val : DataSplits]
    /\ iter = <<>>
    /\ idx = -1
    /\ images = <<>>
    /\ log_px = None
    /\ avg_bpd = None
    /\ params \in {0, 1}
    /\ grads = 0
    /\ bpd = [train |-> None, val |-> None]
    /\ curves = [train |-> <<>>, val |-> <<>>]
    /\ saved = <<>>
    /\ ops = <<>>
    /\ outs = <<>>
    /\ rets = <<>>
    /\ snap = 0

\* one statement of the VAE's main / run_epoch
VaeStep ==
    /\ pc \in VaeStatements
    /\ LET s == VaeExec([pc |-> pc, site |-> site, epoch |-> epoch,
                         training |-> training, bpd |-> bpd, curves |-> curves,
                         saved |-> saved], epochs, data, params)
       IN  /\ pc' = s.pc
           /\ site' = s.site
           /\ epoch' = s.epoch
           /\ training' = s.training
           /\ bpd' = s.bpd
           /\ curves' = s.curves
           /\ saved' = s.saved
    /\ UNCHANGED <<flowVars, epochs, data, iter, idx, images, log_px, avg_bpd,
                   params, grads, ops, outs, rets, snap>>

\* a caller evaluates model.sample(n_samples)
VaeSampleCall(n_samples) ==
    /\ pc = "v_sample"
    /\ idx' = n_samples
    /\ pc' = IF VaeSample(n_samples).raised THEN "raised" ELSE "returned"
    /\ site' = "sample"
    /\ UNCHANGED <<flowVars, epochs, epoch, training, data, iter, images, log_px,
                   avg_bpd, params, grads, bpd, curves, saved, ops, outs, rets, snap>>

NextVAE ==
    \/ VaeStep
    \/ \E n \in SampleSizes : VaeSampleCall(n)

SpecVAE == InitVAE /\ [][NextVAE]_vars

----------------------------------------------------------------------------
(* Claims about the VAE template *)

\* C9: the VAE's sample and epoch_iter always raise the not-implemented
\* error and nothing catches it: a run with at least one epoch ends inside
\* the first epoch's training pass, before any validation pass, optimizer
\* step, append to a curve, or saved ELBO plot.
C9_VaeRaises ==
    /\ pc # "returned"
    /\ site = "sample" => pc = "raised"
    /\ (epochs >= 1 /\ site # "sample" /\ pc # "v_sample") =>
          /\ pc \in {"v_main_for", "v_run_train", "raised"}
          /\ epoch = 0
          /\ site \in {"none", "train"}
          /\ training
          /\ curves = [train |-> <<>>, val |-> <<>>]
          /\ saved = <<>>
          /\ ops = <<>> /\ grads = 0
          /\ ~ENABLED NextVAE => (pc = "raised" /\ site = "train")

\* a run of main with two epochs asked for has ended in the raise
C9_Witness ==
    /\ pc = "raised"
    /\ site = "train"
    /\ epochs = 2

====
